---- MODULE Spec2Model ----
(***************************************************************************)
(* RobotLearningDataset (server/utils/load_dataset.py): loading session    *)
(* exports, the tabular projection, the statistics and the two filters.    *)
(*                                                                         *)
(* One dataset object `dataset` is modelled.  Its attribute self.sessions  *)
(* is the variable `sessions`.  Every method call is one action; the call  *)
(* and what it returned or raised are recorded in `op` and `ret`.          *)
(*                                                                         *)
(* Python values:                                                          *)
(*   - a dict read from JSON is a function over its keys, so an optional   *)
(*     key is a key that is not in DOMAIN;                                 *)
(*   - a dict object that the dataset keeps (a message record, an info     *)
(*     map) is [ref |-> identity, d |-> the dict]; json.load builds fresh  *)
(*     objects on every call, so it hands out fresh identities;            *)
(*   - a number produced by `/` is the exact fraction [num, den].          *)
(***************************************************************************)
EXTENDS Integers, Sequences, FiniteSets, TLC

VARIABLES files, manifest, sessions, nextRef, op, ret

vars == <<files, manifest, sessions, nextRef, op, ret>>

(***************************************************************************)
(* Bounds of the model.                                                    *)
(***************************************************************************)
MaxSessions == 2   \* sessions one dataset holds
MaxManifest == 3   \* entries of the manifest
MaxMsgs     == 2   \* messages of one session export
MaxLabels   == 1   \* labels of one session export

(***************************************************************************)
(* The inputs: the exports directory.                                      *)
(***************************************************************************)
None == "<None>"

SessionIds == {"s1", "s2", "s3"}
Senders    == {"scientist", "robot"}
LabelTypes == {"quality", "count"}
LabelData  == {9}
Timestamps == {"2024-01-01T00:00:00"}

\* Label JSON shape: {"label_type", "label_data"}
Labels == [label_type : LabelTypes, label_data : LabelData]

RECURSIVE SeqsUpTo(_, _)
SeqsUpTo(S, n) ==
    IF n = 0 THEN {<<>>}
    ELSE LET shorter == SeqsUpTo(S, n - 1)
         IN  shorter \cup {Append(s, e) : s \in {t \in shorter : Len(t) = n - 1}, e \in S}

LabelLists == SeqsUpTo(Labels, MaxLabels)

\* Message JSON shape: {"id", "command", "sender", "timestamp",
\* "video_frame_id"?, "labels"?}.  The exporter gives the messages of the
\* robot a video frame, and numbers the messages of a session 1, 2, ...
MkItem(id, sender, has_labels, labels) ==
    LET base == [id |-> id, command |-> "cmd", sender |-> sender,
                 timestamp |-> CHOOSE t \in Timestamps : TRUE]
        vf   == IF sender = "robot"
                THEN [k \in DOMAIN base \cup {"video_frame_id"} |->
                        IF k = "video_frame_id" THEN "frame" ELSE base[k]]
                ELSE base
    IN  IF ~has_labels THEN vf
        ELSE [k \in DOMAIN vf \cup {"labels"} |->
                IF k = "labels" THEN labels ELSE vf[k]]

\* "labels" is optional: the key is absent, or it holds a list of labels
ItemShapes ==
    [sender : Senders, has_labels : {FALSE}, labels : {<<>>}]
      \cup [sender : Senders, has_labels : {TRUE}, labels : LabelLists]

\* the "data" lists of at most n messages that carry at most MaxLabels labels
\* in all
DataLists(n) ==
    UNION {{[i \in 1..len |-> MkItem(i, shape[i].sender, shape[i].has_labels, shape[i].labels)] :
              shape \in {sh \in [1..len -> ItemShapes] :
                           Cardinality({<<i, k>> \in (1..len) \X (1..MaxLabels) :
                                          k <= Len(sh[i].labels)}) <= MaxLabels}} :
           len \in 0..n}

\* the file <exports_dir>/<session_id>_huggingface.json
Missing  == [exists |-> FALSE]
BadJson  == [exists |-> TRUE, json |-> FALSE]
JsonFile(doc) == [exists |-> TRUE, json |-> TRUE, doc |-> doc]
Export(data) == JsonFile([data |-> data, info |-> [exported |-> Len(data)]])
NoData   == JsonFile([info |-> [exported |-> 0]])
NoInfo   == JsonFile([data |-> <<>>])

Loadable(file) ==
    /\ file.exists
    /\ file.json
    /\ {"data", "info"} \subseteq DOMAIN file.doc

\* the file <exports_dir>/dataset_manifest.json; `sessions` is the session_id
\* of each entry of its "sessions" list
NoManifest == [exists |-> FALSE]
Manifests  == [exists : {TRUE}, sessions : SeqsUpTo(SessionIds, MaxManifest)]

(***************************************************************************)
(* What a call returned or raised.                                         *)
(***************************************************************************)
Returned(v)  == [exc |-> "none", val |-> v]
Raised(e)    == [exc |-> e, val |-> None]

(***************************************************************************)
(* load_session                                                            *)
(***************************************************************************)
\* json.load followed by the construction of the session dict: the message
\* records and the info map are fresh objects
NewSession(session_id, doc, ref) ==
    [session_id |-> session_id,
     data |-> [i \in 1..Len(doc.data) |-> [ref |-> ref + i, d |-> doc.data[i]]],
     info |-> [ref |-> ref, d |-> doc.info]]

\* load_session with the append moved above the existence check
load_session_append_first(self, ref, session_id) ==
    LET session_file == files[session_id]
        placeholder == [session_id |-> session_id, data |-> <<>>,
                        info |-> [ref |-> ref, d |-> [exported |-> 0]]]
    IN  IF ~session_file.exists
        THEN [exc |-> "FileNotFoundError", sessions |-> Append(self, placeholder),
              ref |-> ref + 1]
        ELSE IF ~session_file.json \/ ~({"data", "info"} \subseteq DOMAIN session_file.doc)
        THEN [exc |-> "KeyError", sessions |-> self, ref |-> ref]
        ELSE [exc |-> "none",
              sessions |-> Append(self, NewSession(session_id, session_file.doc, ref)),
              ref |-> ref + 1 + Len(session_file.doc.data)]

\* the outcome of self.load_session(session_id): the exception raised, the
\* new self.sessions and the next free object identity
load_session(self, ref, session_id) ==
    LET session_file == files[session_id]
        unchanged(e) == [exc |-> e, sessions |-> self, ref |-> ref]
    IN  IF ~session_file.exists THEN unchanged("FileNotFoundError")
        ELSE IF ~session_file.json THEN unchanged("JSONDecodeError")
        ELSE IF "data" \notin DOMAIN session_file.doc THEN unchanged("KeyError")
        ELSE IF "info" \notin DOMAIN session_file.doc THEN unchanged("KeyError")
        ELSE [exc |-> "none",
              sessions |-> Append(self, NewSession(session_id, session_file.doc, ref)),
              ref |-> ref + 1 + Len(session_file.doc.data)]

LoadSession ==
    /\ \E session_id \in SessionIds :
         LET r == load_session(sessions, nextRef, session_id)
         IN  /\ Len(r.sessions) <= MaxSessions
             /\ sessions' = r.sessions
             /\ nextRef' = r.ref
             /\ op' = [name |-> "load_session", arg |-> session_id]
             /\ ret' = IF r.exc = "none" THEN Returned(None) ELSE Raised(r.exc)
    /\ UNCHANGED <<files, manifest>>

(***************************************************************************)
(* load_from_manifest                                                      *)
(***************************************************************************)
\* no except clause
Caught_nothing(exc) == FALSE

\* except Exception:
Caught_anything(exc) == TRUE

\* except FileNotFoundError:
Caught(exc) == exc = "FileNotFoundError"

\* the for loop over manifest['sessions'], from entry i on
RECURSIVE load_entries(_, _, _)
load_entries(self, ref, i) ==
    IF i > Len(manifest.sessions) THEN [exc |-> "none", sessions |-> self, ref |-> ref]
    ELSE LET r == load_session(self, ref, manifest.sessions[i])
         IN  IF r.exc = "none" \/ Caught(r.exc)
             THEN load_entries(r.sessions, r.ref, i + 1)
             ELSE r

load_from_manifest(self, ref) ==
    IF ~manifest.exists
    THEN [exc |-> "FileNotFoundError", sessions |-> self, ref |-> ref]
    ELSE load_entries(self, ref, 1)

LoadFromManifest ==
    /\ LET r == load_from_manifest(sessions, nextRef)
       IN  /\ Len(r.sessions) <= MaxSessions
           /\ sessions' = r.sessions
           /\ nextRef' = r.ref
           /\ op' = [name |-> "load_from_manifest", arg |-> None]
           /\ ret' = IF r.exc = "none" THEN Returned(None) ELSE Raised(r.exc)
    /\ UNCHANGED <<files, manifest>>

(***************************************************************************)
(* to_dataframe                                                            *)
(***************************************************************************)
\* dict.get(key, default)
Get(d, key, default) == IF key \in DOMAIN d THEN d[key] ELSE default

\* row[key] = value
Put(row, key, value) ==
    [k \in DOMAIN row \cup {key} |-> IF k = key THEN value ELSE row[k]]

\* pd.to_datetime on the ISO-8601 text of the export
to_datetime(timestamp) ==
    CASE timestamp = "2024-01-01T00:00:00" ->
           [year |-> 2024, month |-> 1, day |-> 1, hour |-> 0, minute |-> 0, second |-> 0]

\* for label in labels: row[f'label_{label_type}'] = label['label_data']
RECURSIVE label_columns(_, _, _)
label_columns(row, labels, i) ==
    IF i > Len(labels) THEN row
    ELSE label_columns(Put(row, "label_" \o labels[i].label_type, labels[i].label_data),
                       labels, i + 1)

\* the row dict built for one message
item_row(session_id, item) ==
    LET row == [session_id     |-> session_id,
                message_id     |-> item.id,
                command        |-> item.command,
                sender         |-> item.sender,
                timestamp      |-> to_datetime(item.timestamp),
                video_frame_id |-> Get(item, "video_frame_id", None)]
        labels == Get(item, "labels", <<>>)
    IN  label_columns(Put(row, "label_count", Len(labels)), labels, 1)

\* rows.append(row) indented under `if labels:`
session_rows_labelled_only(session) ==
    LET labelled(item) == Get(item.d, "labels", <<>>) # <<>>
        kept == SelectSeq(session.data, labelled)
    IN  [j \in 1..Len(kept) |-> item_row(session.session_id, kept[j].d)]

\* rows.append(row) for every item of the session
session_rows(session) ==
    [j \in 1..Len(session.data) |-> item_row(session.session_id, session.data[j].d)]

\* the rows list after the loop over self.sessions, from session i on
RECURSIVE dataframe_rows(_, _)
dataframe_rows(self, i) ==
    IF i > Len(self) THEN <<>>
    ELSE session_rows(self[i]) \o dataframe_rows(self, i + 1)

\* pd.DataFrame(rows): the columns are the union of the keys of the rows; a
\* row that lacks a key has a NaN cell in that column, and any other cell
\* holds the value of the row dict (None stays None)
NaN == [nan |-> TRUE]
DataFrame(rows) ==
    LET columns == UNION {DOMAIN rows[i] : i \in 1..Len(rows)}
    IN  [columns |-> columns,
         rows |-> [i \in 1..Len(rows) |->
                     [c \in columns |->
                        IF c \in DOMAIN rows[i]
                        THEN [nan |-> FALSE, v |-> rows[i][c]]
                        ELSE NaN]]]

to_dataframe(self) == DataFrame(dataframe_rows(self, 1))

ToDataframe ==
    /\ op' = [name |-> "to_dataframe", arg |-> None]
    /\ ret' = Returned(to_dataframe(sessions))
    /\ UNCHANGED <<files, manifest, sessions, nextRef>>

(***************************************************************************)
(* get_statistics                                                          *)
(***************************************************************************)
\* the items visited by `for session in self.sessions: for item in
\* session['data']`, from session i on
RECURSIVE all_items(_, _)
all_items(self, i) ==
    IF i > Len(self) THEN <<>>
    ELSE [j \in 1..Len(self[i].data) |-> self[i].data[j].d] \o all_items(self, i + 1)

\* sum(len(s['data']) for s in self.sessions), from session i on
RECURSIVE sum_len_data(_, _)
sum_len_data(self, i) ==
    IF i > Len(self) THEN 0 ELSE Len(self[i].data) + sum_len_data(self, i + 1)

\* senders[sender] = senders.get(sender, 0) + 1, over items k..
RECURSIVE count_senders(_, _, _)
count_senders(senders, items, k) ==
    IF k > Len(items) THEN senders
    ELSE count_senders(Put(senders, items[k].sender, Get(senders, items[k].sender, 0) + 1),
                       items, k + 1)

\* total_labels += len(item.get('labels', [])), over items k..
RECURSIVE count_labels(_, _)
count_labels(items, k) ==
    IF k > Len(items) THEN 0
    ELSE Len(Get(items[k], "labels", <<>>)) + count_labels(items, k + 1)

\* a / b; a zero denominator stands for the ZeroDivisionError
TrueDiv(a, b) == [num |-> a, den |-> b]
Zero == [num |-> 0, den |-> 1]

\* total_messages / len(self.sessions) if self.sessions else 0
avg_messages_per_session(self, total_messages) ==
    IF self # <<>> THEN TrueDiv(total_messages, Len(self)) ELSE Zero

\* total_labels / total_messages, without the conditional
avg_labels_per_message_unguarded(total_labels, total_messages) ==
    TrueDiv(total_labels, total_messages)

\* total_labels / total_messages if total_messages else 0
avg_labels_per_message(total_labels, total_messages) ==
    IF total_messages # 0 THEN TrueDiv(total_labels, total_messages) ELSE Zero

get_statistics(self) ==
    LET total_messages == sum_len_data(self, 1)
        items          == all_items(self, 1)
        senders        == count_senders(<<>>, items, 1)
        total_labels   == count_labels(items, 1)
        per_session    == avg_messages_per_session(self, total_messages)
        per_message    == avg_labels_per_message(total_labels, total_messages)
    IN  IF per_session.den = 0 \/ per_message.den = 0
        THEN Raised("ZeroDivisionError")
        ELSE Returned([total_sessions           |-> Len(self),
                       total_messages           |-> total_messages,
                       total_labels             |-> total_labels,
                       messages_by_sender       |-> senders,
                       avg_messages_per_session |-> per_session,
                       avg_labels_per_message   |-> per_message])

GetStatistics ==
    /\ op' = [name |-> "get_statistics", arg |-> None]
    /\ ret' = get_statistics(sessions)
    /\ UNCHANGED <<files, manifest, sessions, nextRef>>

(***************************************************************************)
(* filter_by_sender, filter_by_labels                                      *)
(***************************************************************************)
\* if item['sender'] != sender
sender_differs(item, sender) == item.d.sender # sender

\* if item['sender'] == sender
sender_matches(item, sender) == item.d.sender = sender

\* filtered.sessions.append({'session_id': ..., 'data': filtered_data,
\* 'info': session['info']}) when filtered_data is not empty.  The new list
\* holds the item objects of the session, and the new dict its info object.
append_filtered(filtered, session, filtered_data) ==
    IF filtered_data # <<>>
    THEN Append(filtered, [session_id |-> session.session_id,
                           data       |-> filtered_data,
                           info       |-> session.info])
    ELSE filtered

\* the loop of filter_by_sender over self.sessions, from session i on
RECURSIVE filter_sender_from(_, _, _, _)
filter_sender_from(filtered, self, sender, i) ==
    IF i > Len(self) THEN filtered
    ELSE LET keep(item) == sender_matches(item, sender)
         IN  filter_sender_from(
                 append_filtered(filtered, self[i], SelectSeq(self[i].data, keep)),
                 self, sender, i + 1)

\* the sessions of the dataset that filter_by_sender returns
filter_by_sender(self, sender) == filter_sender_from(<<>>, self, sender, 1)

FilterBySender ==
    /\ \E sender \in Senders :
         /\ op' = [name |-> "filter_by_sender", arg |-> sender]
         /\ ret' = Returned(filter_by_sender(sessions, sender))
    /\ UNCHANGED <<files, manifest, sessions, nextRef>>

\* filter_by_labels without the test of the label type
labels_match_any_type(item, label_type) ==
    Get(item.d, "labels", <<>>) # <<>>

\* the body of `for item in session['data']` in filter_by_labels: whether the
\* item is appended to filtered_data
labels_match(item, label_type) ==
    LET labels == Get(item.d, "labels", <<>>)
    IN  IF labels = <<>> THEN FALSE
        ELSE IF label_type = None THEN TRUE
        ELSE \E k \in 1..Len(labels) : labels[k].label_type = label_type

\* the loop of filter_by_labels over self.sessions, from session i on
RECURSIVE filter_labels_from(_, _, _, _)
filter_labels_from(filtered, self, label_type, i) ==
    IF i > Len(self) THEN filtered
    ELSE LET keep(item) == labels_match(item, label_type)
         IN  filter_labels_from(
                 append_filtered(filtered, self[i], SelectSeq(self[i].data, keep)),
                 self, label_type, i + 1)

\* the sessions of the dataset that filter_by_labels returns
filter_by_labels(self, label_type) == filter_labels_from(<<>>, self, label_type, 1)

FilterByLabels ==
    /\ \E label_type \in LabelTypes \cup {None} :
         /\ op' = [name |-> "filter_by_labels", arg |-> label_type]
         /\ ret' = Returned(filter_by_labels(sessions, label_type))
    /\ UNCHANGED <<files, manifest, sessions, nextRef>>

(***************************************************************************)
(* Specification                                                           *)
(***************************************************************************)
\* RobotLearningDataset(data_dir): no I/O, an empty session list
Constructed ==
    /\ sessions = <<>>
    /\ nextRef = 1
    /\ op = [name |-> "__init__", arg |-> None]
    /\ ret = Returned(None)

\* exports directories for the loading claims: any mix of missing, malformed
\* and valid exports, any manifest.  The code never looks into a session id,
\* so the directories are taken up to a renaming of the ids: the kinds of the
\* exports of s1, s2, s3 are in the order of FileKinds, and the manifest lists
\* the ids in any order.
SmallExport == Export(<<MkItem(1, "robot", TRUE, <<>>)>>)

FileKinds == <<Missing, SmallExport, BadJson, NoData, NoInfo>>

Init ==
    /\ \E kind \in [SessionIds -> DOMAIN FileKinds] :
         /\ kind["s1"] <= kind["s2"]
         /\ kind["s2"] <= kind["s3"]
         /\ files = [session_id \in SessionIds |-> FileKinds[kind[session_id]]]
    /\ manifest \in Manifests \cup {NoManifest}
    /\ Constructed

\* exports directories for the claims about the held data: s1 holds any
\* messages, s2 one labelled message of the robot, s3 is missing, and the
\* manifest lists the three
OtherExport ==
    Export(<<MkItem(1, "robot", TRUE, <<[label_type |-> "quality", label_data |-> 9]>>)>>)

InitData ==
    /\ \E d1 \in DataLists(MaxMsgs) :
         files = [session_id \in SessionIds |->
                    CASE session_id = "s1" -> Export(d1)
                      [] session_id = "s2" -> OtherExport
                      [] OTHER -> Missing]
    /\ manifest = [exists |-> TRUE, sessions |-> <<"s1", "s3", "s2">>]
    /\ Constructed

Next ==
    \/ LoadSession
    \/ LoadFromManifest
    \/ ToDataframe
    \/ GetStatistics
    \/ FilterBySender
    \/ FilterByLabels

Spec == Init /\ [][Next]_vars

SpecData == InitData /\ [][Next]_vars

(***************************************************************************)
(* Properties                                                              *)
(***************************************************************************)
SessionIdsOf(ss) == [i \in 1..Len(ss) |-> ss[i].session_id]

FileExists(session_id)   == files[session_id].exists
FileLoadable(session_id) == Loadable(files[session_id])
FileMalformed(session_id) == FileExists(session_id) /\ ~FileLoadable(session_id)

\* the positions <<session, message>> of the messages a dataset holds
MsgPositions(ss) ==
    UNION {{<<i, j>> : j \in 1..Len(ss[i].data)} : i \in 1..Len(ss)}

\* the row of the tabular projection that belongs to message j of session i
RowIndex(ss, i, j) == Cardinality({p \in MsgPositions(ss) : p[1] < i}) + j

LabelsOf(item) == IF "labels" \in DOMAIN item.d THEN item.d.labels ELSE <<>>

HasLabelOfType(item, T) ==
    \E k \in 1..Len(LabelsOf(item)) : LabelsOf(item)[k].label_type = T

\* the identities of the message records and info maps a session list reaches
ObjRefs(ss) ==
    {ss[i].info.ref : i \in 1..Len(ss)}
      \cup {ss[p[1]].data[p[2]].ref : p \in MsgPositions(ss)}

\* C1: load_from_manifest on a freshly constructed dataset, when every listed
\* export either is missing or is valid, raises nothing and leaves exactly the
\* listed sessions whose export exists, in manifest order.
C1_ManifestSkipsMissing ==
    [][(/\ op'.name = "load_from_manifest"
        /\ sessions = <<>>
        /\ manifest.exists
        /\ \A i \in 1..Len(manifest.sessions) :
             ~FileExists(manifest.sessions[i]) \/ FileLoadable(manifest.sessions[i]))
       => /\ ret'.exc = "none"
          /\ SessionIdsOf(sessions') = SelectSeq(manifest.sessions, FileExists)]_vars

\* a manifest of three entries, the middle one missing, loaded into a fresh
\* dataset
C1_Witness ==
    /\ op.name = "load_from_manifest"
    /\ ret.exc = "none"
    /\ manifest.exists
    /\ Len(manifest.sessions) = 3
    /\ FileLoadable(manifest.sessions[1])
    /\ ~FileExists(manifest.sessions[2])
    /\ FileLoadable(manifest.sessions[3])
    /\ SessionIdsOf(sessions) = <<manifest.sessions[1], manifest.sessions[3]>>

\* C2: load_session of a session whose export does not exist raises
\* FileNotFoundError and leaves the session list as it was before the call.
C2_FailedLoadKeepsSessions ==
    [][(op'.name = "load_session" /\ ~FileExists(op'.arg))
       => (ret'.exc = "FileNotFoundError" /\ sessions' = sessions)]_vars

\* a failed load_session on a dataset that already holds sessions
C2_Witness ==
    /\ op.name = "load_session"
    /\ ~FileExists(op.arg)
    /\ ret.exc = "FileNotFoundError"
    /\ Len(sessions) >= 2

\* C3: to_dataframe yields one row per held message: the row count is the
\* number of held messages, and row RowIndex(i, j) is message j of session i.
C3_OneRowPerMessage ==
    op.name = "to_dataframe" =>
      /\ ret.exc = "none"
      /\ Len(ret.val.rows) = Cardinality(MsgPositions(sessions))
      /\ \A p \in MsgPositions(sessions) :
           LET row  == ret.val.rows[RowIndex(sessions, p[1], p[2])]
               item == sessions[p[1]].data[p[2]].d
           IN  /\ row.session_id.v = sessions[p[1]].session_id
               /\ row.message_id.v = item.id
               /\ row.sender.v = item.sender
               /\ row.command.v = item.command

\* the projection of two sessions that hold messages, one of them two messages
\* of different senders
C3_Witness ==
    /\ op.name = "to_dataframe"
    /\ Len(sessions) >= 2
    /\ Len(ret.val.rows) >= 3
    /\ sessions[1].session_id # sessions[2].session_id
    /\ \E i \in 1..Len(sessions) :
         /\ Len(sessions[i].data) = 2
         /\ sessions[i].data[1].d.sender # sessions[i].data[2].d.sender
         /\ "labels" \notin DOMAIN sessions[i].data[1].d

\* C4: the projection of filter_by_sender(S) has only rows of sender S, as many
\* as the projection of the original has rows of sender S, and the filtered
\* session list is the list of the sessions that hold a message from S.
C4_FilterBySender ==
    op.name = "filter_by_sender" =>
      LET S   == op.arg
          fdf == to_dataframe(ret.val)
          odf == to_dataframe(sessions)
          HasS(session) == \E j \in 1..Len(session.data) : session.data[j].d.sender = S
      IN  /\ \A k \in 1..Len(fdf.rows) : fdf.rows[k].sender.v = S
          /\ Len(fdf.rows) = Cardinality({k \in 1..Len(odf.rows) : odf.rows[k].sender.v = S})
          /\ SessionIdsOf(ret.val) = SessionIdsOf(SelectSeq(sessions, HasS))
          /\ \A i \in 1..Len(ret.val) : ret.val[i].data # <<>>

\* a filter that drops one session entirely and a message of another
C4_Witness ==
    /\ op.name = "filter_by_sender"
    /\ ret.val # <<>>
    /\ Len(ret.val) < Len(sessions)
    /\ \E i \in 1..Len(sessions) :
         /\ Len(sessions[i].data) = 2
         /\ sessions[i].data[1].d.sender # sessions[i].data[2].d.sender
    /\ \E i \in 1..Len(sessions) :
         /\ sessions[i].data # <<>>
         /\ \A j \in 1..Len(sessions[i].data) : sessions[i].data[j].d.sender # op.arg

\* C5: filter_by_labels(T) holds exactly the messages of the original that
\* have a label (T not given) or a label of type T (T given), and none of its
\* sessions is empty.
C5_FilterByLabels ==
    op.name = "filter_by_labels" =>
      LET T == op.arg
          Wanted(item) == IF T = None THEN Len(LabelsOf(item)) >= 1
                          ELSE HasLabelOfType(item, T)
          wanted == {p \in MsgPositions(sessions) : Wanted(sessions[p[1]].data[p[2]])}
      IN  /\ \A p \in MsgPositions(ret.val) : Wanted(ret.val[p[1]].data[p[2]])
          /\ {ret.val[p[1]].data[p[2]].ref : p \in MsgPositions(ret.val)}
               = {sessions[p[1]].data[p[2]].ref : p \in wanted}
          /\ Cardinality(MsgPositions(ret.val)) = Cardinality(wanted)
          /\ \A i \in 1..Len(ret.val) : ret.val[i].data # <<>>

\* a filter on a given type that keeps a message and drops a message that has
\* labels of another type only and a message without the labels key
C5_Witness ==
    /\ op.name = "filter_by_labels"
    /\ op.arg # None
    /\ ret.val # <<>>
    /\ \E p \in MsgPositions(sessions) :
         /\ LabelsOf(sessions[p[1]].data[p[2]]) # <<>>
         /\ ~HasLabelOfType(sessions[p[1]].data[p[2]], op.arg)
    /\ \E p \in MsgPositions(sessions) : "labels" \notin DOMAIN sessions[p[1]].data[p[2]].d

\* C6: get_statistics never divides by zero; with no session all counts and
\* both averages are 0, and with no message avg_labels_per_message is 0.
C6_NoDivisionByZero ==
    op.name = "get_statistics" =>
      /\ ret.exc = "none"
      /\ ret.val.avg_messages_per_session.den # 0
      /\ ret.val.avg_labels_per_message.den # 0
      /\ sessions = <<>> =>
           /\ ret.val.total_sessions = 0
           /\ ret.val.total_messages = 0
           /\ ret.val.total_labels = 0
           /\ ret.val.avg_messages_per_session.num = 0
           /\ ret.val.avg_labels_per_message.num = 0
      /\ MsgPositions(sessions) = {} => ret.val.avg_labels_per_message.num = 0

\* the statistics of a dataset that holds sessions, all with an empty data list
C6_Witness ==
    /\ op.name = "get_statistics"
    /\ ret.exc = "none"
    /\ Len(sessions) >= 2
    /\ MsgPositions(sessions) = {}
    /\ ret.val.total_sessions = Len(sessions)

\* C7: the dataset a filter returns shares no message record and no info map
\* with the original.
C7_FilterSharesNothing ==
    op.name \in {"filter_by_sender", "filter_by_labels"} =>
      ObjRefs(ret.val) \cap ObjRefs(sessions) = {}

\* C8: the label_count cell of the row of a message is the number of labels of
\* that message.
C8_LabelCountIsNumberOfLabels ==
    op.name = "to_dataframe" =>
      \A p \in MsgPositions(sessions) :
        ret.val.rows[RowIndex(sessions, p[1], p[2])].label_count.v
          = Len(LabelsOf(sessions[p[1]].data[p[2]]))

\* C9: for every label type T observed in the dataset, the cell label_T of a
\* row is populated if and only if the message of the row has a label of
\* type T.
C9_LabelColumnIffLabel ==
    op.name = "to_dataframe" =>
      \A T \in {LabelsOf(sessions[q[1]].data[q[2]])[k].label_type :
                  <<q, k>> \in {<<q, k>> \in MsgPositions(sessions) \X (1..MaxLabels) :
                                  k <= Len(LabelsOf(sessions[q[1]].data[q[2]]))}} :
        \A p \in MsgPositions(sessions) :
          ~ret.val.rows[RowIndex(sessions, p[1], p[2])]["label_" \o T].nan
            <=> HasLabelOfType(sessions[p[1]].data[p[2]], T)

\* the entries of the manifest before the first one whose export exists but is
\* malformed
FirstMalformed ==
    LET bad == {i \in 1..Len(manifest.sessions) : FileMalformed(manifest.sessions[i])}
    IN  IF bad = {} THEN Len(manifest.sessions) + 1
        ELSE CHOOSE i \in bad : \A k \in bad : i <= k

\* C10 as stated: after load_from_manifest every listed session whose export
\* is valid is held, whatever happened to the other entries.
C10_EveryValidEntryHeld ==
    (op.name = "load_from_manifest" /\ manifest.exists) =>
      \A i \in 1..Len(manifest.sessions) :
        FileLoadable(manifest.sessions[i]) =>
          \E j \in 1..Len(sessions) : sessions[j].session_id = manifest.sessions[i]

\* C10 amended: load_from_manifest skips a listed session whose export is
\* missing, and stops with the parse or key error at the first listed session
\* whose export is malformed; it appends exactly the valid entries listed
\* before that one, and raises nothing when no listed export is malformed.
C10_OnlyMissingIsIsolated ==
    [][(op'.name = "load_from_manifest" /\ manifest.exists)
       => /\ (ret'.exc = "none") <=> (FirstMalformed > Len(manifest.sessions))
          /\ ret'.exc \in {"none", "JSONDecodeError", "KeyError"}
          /\ Len(sessions') >= Len(sessions)
          /\ SubSeq(sessions', 1, Len(sessions)) = sessions
          /\ SessionIdsOf(SubSeq(sessions', Len(sessions) + 1, Len(sessions')))
               = SelectSeq(SubSeq(manifest.sessions, 1, FirstMalformed - 1), FileLoadable)]_vars

\* a manifest that lists a missing export, a valid one, a malformed one: the
\* batch stops at the third entry and holds the second
C10_Witness ==
    /\ op.name = "load_from_manifest"
    /\ ret.exc \in {"JSONDecodeError", "KeyError"}
    /\ manifest.exists
    /\ Len(manifest.sessions) = 3
    /\ ~FileExists(manifest.sessions[1])
    /\ FileLoadable(manifest.sessions[2])
    /\ FileMalformed(manifest.sessions[3])
    /\ SessionIdsOf(sessions) = <<manifest.sessions[2]>>

====
